---- MODULE Spec2Model ----
(***************************************************************************)
(* The account backend: the session-token lifecycle (login, logout,        *)
(* refresh, the verifyJWT middleware), password change, registration and   *)
(* the image updates, as state machines over the user collection.  Every   *)
(* `await` on the store or the upload service is one atomic step; the      *)
(* synchronous code between two awaits belongs to the step that precedes   *)
(* it (Node runs it without interleaving).                                 *)
(***************************************************************************)
EXTENDS Integers, FiniteSets, Sequences, TLC

\* ---------------------------------------------------------------- bounds
NumUsers == 1
MaxClock == 1
MaxRequests == 2
AccessTTL == 1
RefreshTTL == 2

Ids == 1..NumUsers
\* An account removed from the collection whose tokens are still in clients' hands.
Ghost == 0
Reqs == 1..2

\* ------------------------------------------------------------ token codec
AccessSecret == "ACCESS_TOKEN_SECRET"
RefreshSecret == "REFRESH_TOKEN_SECRET"

\* JS undefined / absent cookie, header or field.
NoToken == [sub |-> 0, iat |-> 0, exp |-> 0, key |-> "none"]
\* A string that is no JWT, e.g. the cookie value "undefined".
Garbage == [sub |-> 0, iat |-> 0, exp |-> 0, key |-> "garbage"]
\* A well-formed JWT signed with a key that is neither secret.
Forged == [sub |-> 1, iat |-> 0, exp |-> MaxClock + 1, key |-> "attacker"]

\* jwt.sign(payload, secret, {expiresIn}): HS256 is deterministic, so the token
\* is a function of the claims (subject, iat, exp) and the key.
JwtSign(id, secret, ttl, t) == [sub |-> id, iat |-> t, exp |-> t + ttl, key |-> secret]

generateAccessToken(id, t) == JwtSign(id, AccessSecret, AccessTTL, t)

generateRefreshToken(id, t) == JwtSign(id, RefreshSecret, RefreshTTL, t)

\* jwt.verify(token, secret) at time t: "ok" or the reason it throws.
JwtVerify(token, secret, t) ==
  IF token.key \in {"garbage", "none"} THEN "malformed"
  ELSE IF token.key # secret THEN "signature"
  ELSE IF t >= token.exp THEN "expired"
  ELSE "ok"

\* The middleware verifying with the other environment variable.
VerifyJWTSecretSwapped == RefreshSecret

\* The secret each verifier checks against.
VerifyJWTSecret == AccessSecret

RefreshVerifySecret == RefreshSecret

\* ------------------------------------------------------------------ state
VARIABLES
  db,            \* the user collection: id -> document
  now,           \* the clock jwt reads (seconds)
  req,           \* the requests in flight: slot -> position, locals, response
  issued,        \* tokens that responses have handed to clients
  nreq,          \* requests received so far
  omitUndefined, \* whether the installed Mongoose drops undefined keys of an update
  usedOK,        \* refresh tokens redeemed successfully since their identity's last login
  loggedOut      \* id -> a logout completed and no login has stored a token since

vars == <<db, now, req, issued, nreq, omitUndefined, usedOK, loggedOut>>

\* The passwords a client can type.
Passwords == {"secret", "other"}

\* A username is a word in some spelling: the word and whether the spelling
\* has capitals.  An email address is a number.
Names == 1 .. (NumUsers + 1)

NoName == [word |-> 0, caps |-> FALSE]

\* username.toLowerCase()
toLowerCase(username) == [username EXCEPT !.caps = FALSE]

\* null, as uploadOnCloudinary returns it; and the url of an upload.
NoUpload == ""

UploadedUrl == "uploaded"

\* The credential fields of a user document.
CredentialFields == {"password", "refreshToken"}

\* query.select("-a -b"): the credential fields that the returned object still
\* carries, `excluded` being the fields the projection names.  A refreshToken
\* that was never set is no field of the object.
Select(doc, excluded) ==
  {f \in CredentialFields \ excluded :
     f = "refreshToken" => doc.refreshToken # NoToken}

\* No document loaded.
NoDoc == [password |-> "", refreshToken |-> NoToken]

IdleReq ==
  [op |-> "idle", pc |-> "idle", token |-> NoToken, sub |-> -1,
   access |-> NoToken, refresh |-> NoToken, user |-> 0, next |-> FALSE,
   status |-> 0, outAccess |-> NoToken, outRefresh |-> NoToken,
   outCookie |-> NoToken, cause |-> "",
   replay |-> FALSE, overlap |-> FALSE, afterLogout |-> FALSE,
   overwritten |-> FALSE, credsOK |-> FALSE,
   tkey |-> "none", texpired |-> FALSE, badPwd |-> FALSE,
   doc |-> NoDoc, newPassword |-> "",
   headerToo |-> FALSE, extractOK |-> TRUE,
   username |-> NoName, email |-> 0, avatar |-> NoUpload, coverImage |-> NoUpload,
   uploadFailed |-> FALSE, taken |-> FALSE, exposed |-> {},
   files |-> {}, invalid |-> FALSE]

\* What a client can put in a cookie, a header or a body field.
Presentable == issued \cup {Garbage, Forged}

\* The second carrier of a token (the Authorization header, the body field): any
\* value when the cookie is absent; beside a cookie it is absent, forged, or a
\* token issued this second to an existing identity.
Second(cookie) ==
  IF cookie = NoToken THEN Presentable \cup {NoToken}
  ELSE {NoToken, Forged} \cup {t \in issued : t.sub \in Ids /\ t.iat = now}

\* Tokens in clients' hands that name no document: those of the removed account,
\* one of them older than its lifetime.
GhostTokens ==
  {generateAccessToken(Ghost, 0), generateRefreshToken(Ghost, 0),
   generateRefreshToken(Ghost, 0 - RefreshTTL)}

\* The collection outlives the server: it starts with every user registered, and
\* user 1 either never logged in or holds the session of a login made this second.
Init ==
  /\ \E session \in BOOLEAN :
       /\ db = [i \in Ids |->
                 [username |-> [word |-> i, caps |-> FALSE], email |-> i,
                  avatar |-> "avatar", coverImage |-> "",
                  password |-> "secret",
                  refreshToken |-> IF session /\ i = 1
                                   THEN generateRefreshToken(1, 0) ELSE NoToken]]
       /\ issued = GhostTokens \cup
                    (IF session
                     THEN {generateAccessToken(1, 0), generateRefreshToken(1, 0)}
                     ELSE {})
  /\ now = 0
  /\ req = [r \in Reqs |-> IdleReq]
  /\ nreq = 0
  /\ omitUndefined \in BOOLEAN
  /\ usedOK = {}
  /\ loggedOut = [i \in Ids |-> FALSE]

\* new ApiErrors(status, ...) reaching the error boundary: the request ends.
Fail(rec, status, cause) ==
  [IdleReq EXCEPT !.op = rec.op, !.pc = "done", !.status = status, !.cause = cause,
     !.sub = rec.sub, !.tkey = rec.tkey, !.texpired = rec.texpired,
     !.replay = rec.replay, !.afterLogout = rec.afterLogout, !.overlap = rec.overlap,
     !.credsOK = rec.credsOK, !.badPwd = rec.badPwd, !.extractOK = rec.extractOK,
     !.uploadFailed = rec.uploadFailed, !.taken = rec.taken,
     !.files = rec.files, !.invalid = rec.invalid]

\* A slot takes a new request once it is free: it never held one, or its response
\* has been sent.  Of two free slots the first is taken.
Free(r) ==
  /\ req[r].pc \in {"idle", "done"}
  /\ \A x \in Reqs : req[x].pc \in {"idle", "done"} => r <= x

\* A write of `id`'s refreshToken by request r, seen from the other requests:
\* a login that has saved its own token is no longer the last writer, and a
\* password change waiting for its save holds a document that is out of date.
MarkWrite(rq, r, id) ==
  [x \in Reqs |->
     IF /\ x # r
        /\ \/ /\ rq[x].op = "login" /\ rq[x].sub = id
              /\ rq[x].pc \in {"login_findById", "done"} /\ rq[x].refresh # NoToken
           \/ rq[x].op = "password" /\ rq[x].user = id /\ rq[x].pc = "pwd_save"
     THEN [rq[x] EXCEPT !.overwritten = TRUE]
     ELSE rq[x]]

Tick ==
  /\ now < MaxClock
  /\ now' = now + 1
  /\ UNCHANGED <<db, req, issued, nreq, omitUndefined, usedOK, loggedOut>>

\* ------------------------------------------------------ verifyJWT middleware
\* The header taken first and the cookie only without it.
ExtractTokenHeaderFirst(cookie, header) == IF header # NoToken THEN header ELSE cookie

\* req.cookies?.accessToken || req.header("Authorization")?.replace("Bearer ", "")
ExtractToken(cookie, header) == IF cookie # NoToken THEN cookie ELSE header

\* jwt.decode in place of jwt.verify: neither signature nor expiry is checked.
VerifyAccessDecodeOnly(token, t) ==
  IF token.key \in {"garbage", "none"} THEN "malformed" ELSE "ok"

VerifyAccess(token, t) == JwtVerify(token, VerifyJWTSecret, t)

\* verifyJWT's catch: whatever was thrown inside the try (the missing token, the
\* jwt.verify error, the missing user) is rethrown with this status.
VerifyJWTCatch(error) == 401

\* A lookup that is never taken to have failed.
UserMissingNever(store, id) == FALSE

\* The middleware also turning away a user that holds no session.
UserMissingOrLoggedOut(store, id) ==
  id \notin DOMAIN store \/ store[id].refreshToken = NoToken

\* `!user` after User.findById(decodedToken?._id).
UserMissing(store, id) == id \notin DOMAIN store

\* Token extraction and jwt.verify, up to the await on User.findById.  The
\* middleware runs the same for every protected route; which route the request
\* is for shows only when next() is called.
verifyJWT_Start(r, cookie, header) ==
  /\ Free(r)
  /\ nreq < MaxRequests
  /\ nreq' = nreq + 1
  /\ LET token == ExtractToken(cookie, header)
         v == VerifyAccess(token, now)
         rec == [IdleReq EXCEPT !.op = "protected", !.token = token,
                   !.headerToo = (cookie # NoToken /\ header # NoToken),
                   !.extractOK = (token = IF cookie # NoToken THEN cookie ELSE header),
                   !.tkey = token.key, !.texpired = (token.key = VerifyJWTSecret /\ now >= token.exp)]
     IN req' = [req EXCEPT ![r] =
          IF token = NoToken THEN Fail(rec, VerifyJWTCatch("missing"), "missing")
          ELSE IF v # "ok" THEN Fail(rec, VerifyJWTCatch(v), v)
          ELSE [rec EXCEPT !.pc = "mw_findById", !.sub = token.sub]]
  /\ UNCHANGED <<db, now, issued, omitUndefined, usedOK, loggedOut>>

\* Where a route's handler waits first: its first await on a collaborator.
RouteEntry(route) ==
  CASE route = "logout" -> "logout_update"
    [] route = "password" -> "pwd_findById"

\* User.findById resolves; req.user is set, next() runs the route's handler up
\* to its first await (getCurrentUser has none and responds at once).
verifyJWT_FindById(r, route) ==
  /\ req[r].pc = "mw_findById"
  /\ req' = [req EXCEPT ![r] =
       IF UserMissing(db, req[r].sub)
       THEN Fail(req[r], VerifyJWTCatch("unknown"), "unknown")
       ELSE LET rec == [req[r] EXCEPT !.user = req[r].sub, !.next = TRUE,
                        !.exposed = Select(db[req[r].sub], {"password", "refreshToken"})]
            IN IF route = "me"
               THEN [rec EXCEPT !.op = route, !.pc = "done", !.status = 200]
               ELSE [rec EXCEPT !.op = route, !.pc = RouteEntry(route)]]
  /\ UNCHANGED <<db, now, issued, nreq, omitUndefined, usedOK, loggedOut>>

\* ------------------------------------------------------------------ logout
\* User.findByIdAndUpdate(req.user._id, {$set: {refreshToken: undefined}}).
\* Mongoose 6 and later drop a key whose value is undefined from the update, which
\* makes it a no-op; Mongoose 5 sends it and the field becomes null.
LoggedOutUser_Update(r) ==
  /\ req[r].pc = "logout_update"
  /\ LET id == req[r].user
     IN /\ db' = IF omitUndefined THEN db
                 ELSE [db EXCEPT ![id].refreshToken = NoToken]
        /\ req' = [(IF omitUndefined THEN req ELSE MarkWrite(req, r, id))
                     EXCEPT ![r] = [req[r] EXCEPT !.pc = "done", !.status = 200]]
        /\ loggedOut' = [loggedOut EXCEPT ![id] = TRUE]
  /\ UNCHANGED <<now, issued, nreq, omitUndefined, usedOK>>

\* ------------------------------------------- generateAccessTokenAndRefreshToken
\* What the catch of generateAccessTokenAndRefreshToken throws.
GenerateCatchStatus == 500

\* A catch that rethrows what it caught: a jwt.verify error carries no status and
\* leaves the error boundary as 500.
RefreshCatchRethrow(error) ==
  IF error \in {"malformed", "signature", "expired"} THEN 500 ELSE 401

\* refreshAccessToken's catch: whatever was thrown inside the try is rethrown
\* with this status.
RefreshCatch(error) == 401

\* User.findById(userId) resolves; both tokens are signed and set on the document,
\* up to the await on user.save.
generate_FindById(r) ==
  /\ req[r].pc = "gen_findById"
  /\ req' = [req EXCEPT ![r] =
       IF req[r].sub \notin DOMAIN db
       THEN Fail(req[r],
                 IF req[r].op = "refresh" THEN RefreshCatch("generate")
                 ELSE GenerateCatchStatus, "generate")
       ELSE [req[r] EXCEPT !.pc = "gen_save",
                           !.access = generateAccessToken(req[r].sub, now),
                           !.refresh = generateRefreshToken(req[r].sub, now)]]
  /\ UNCHANGED <<db, now, issued, nreq, omitUndefined, usedOK, loggedOut>>

\* The access token put in user.refreshToken.
StoredTokenAccess(rec) == rec.access

\* The value generateAccessTokenAndRefreshToken puts in user.refreshToken.
StoredToken(rec) == rec.refresh

\* What refreshAccessToken reads as `newRefreshToken` from the {accessToken,
\* refreshToken} object generateAccessTokenAndRefreshToken returns: no such key.
newRefreshToken(rec) == NoToken

\* res.cookie(name, value): the value goes through String(); String(undefined) is
\* the text "undefined", which is no JWT.
CookieValue(t) == IF t = NoToken THEN Garbage ELSE t

\* user.save({validateBeforeSave: false}) commits: only the modified path,
\* refreshToken, is written.  LoginUser goes on to its second findById;
\* refreshAccessToken responds.
generate_Save(r) ==
  /\ req[r].pc = "gen_save"
  /\ LET id == req[r].sub
         rq == MarkWrite(req, r, id)
     IN /\ db' = [db EXCEPT ![id].refreshToken = StoredToken(req[r])]
        /\ IF req[r].op = "login"
           THEN /\ req' = [x \in Reqs |->
                    IF x = r THEN [req[r] EXCEPT !.pc = "login_findById"]
                    ELSE IF rq[x].token.sub = id /\ rq[x].pc # "done"
                    THEN [rq[x] EXCEPT !.replay = FALSE, !.afterLogout = FALSE]
                    ELSE rq[x]]
                /\ usedOK' = {t \in usedOK : t.sub # id}
                /\ loggedOut' = [loggedOut EXCEPT ![id] = FALSE]
                /\ issued' = issued
           ELSE /\ req' = [rq EXCEPT ![r] =
                    [req[r] EXCEPT !.pc = "done", !.status = 200,
                       !.outAccess = req[r].access,
                       !.outRefresh = newRefreshToken(req[r]),
                       !.outCookie = CookieValue(newRefreshToken(req[r]))]]
                /\ usedOK' = usedOK \cup {req[r].token}
                /\ loggedOut' = loggedOut
                /\ issued' = issued \cup
                     ({req[r].access, newRefreshToken(req[r])} \ {NoToken})
  /\ UNCHANGED <<now, nreq, omitUndefined>>

\* -------------------------------------------------------------------- login
\* A comparison that accepts every password.
isPasswordCorrectAny(doc, password) == TRUE

\* user.isPasswordCorrect(password): the hash comparison of the user model.
isPasswordCorrect(doc, password) == doc.password = password

\* The request arrives and User.findOne({$or: [{username}, {email}]}) resolves;
\* ident is the identity the identifier names, 0 when it names none and -1 when
\* the body has neither username nor email.
LoginUser_FindOne(r, ident, password) ==
  /\ Free(r)
  /\ nreq < MaxRequests
  /\ nreq' = nreq + 1
  /\ LET rec == [IdleReq EXCEPT !.op = "login", !.sub = ident,
                   !.badPwd = (ident \in DOMAIN db /\ db[ident].password # password)]
     IN req' = [req EXCEPT ![r] =
          IF ident = -1 THEN Fail(rec, 400, "validation")
          ELSE IF ident \notin DOMAIN db THEN Fail(rec, 404, "notfound")
          ELSE IF ~isPasswordCorrect(db[ident], password)
          THEN Fail(rec, 401, "password")
          ELSE [rec EXCEPT !.pc = "gen_findById", !.credsOK = TRUE]]
  /\ UNCHANGED <<db, now, issued, omitUndefined, usedOK, loggedOut>>

\* User.findById(user._id).select("-password -refreshToken") resolves and the
\* response carries both tokens, as cookies and in the body.
LoginUser_FindById(r) ==
  /\ req[r].pc = "login_findById"
  /\ req' = [req EXCEPT ![r] =
       [req[r] EXCEPT !.pc = "done", !.status = 200,
                      !.user = req[r].sub,
                      !.exposed = Select(db[req[r].sub], {"password", "refreshToken"}),
                      !.outAccess = req[r].access,
                      !.outRefresh = req[r].refresh,
                      !.outCookie = CookieValue(req[r].refresh)]]
  /\ issued' = issued \cup {req[r].access, req[r].refresh}
  /\ UNCHANGED <<db, now, nreq, omitUndefined, usedOK, loggedOut>>

\* ---------------------------------------------------------- change password
\* A save that writes the whole document as it was loaded.
SaveWholeDocument(store, id, doc, newPassword) ==
  [store EXCEPT ![id] = [doc EXCEPT !.password = newPassword]]

\* user.password = newPassword; user.save({validateBeforeSave: false}): the save
\* writes the modified path, password, and nothing else of the loaded document.
SavePassword(store, id, doc, newPassword) ==
  [store EXCEPT ![id].password = newPassword]

\* User.findById(req.user._id) resolves and the old password is compared with the
\* loaded document (the comparison awaits the hash only, not the store), up to
\* the await on user.save.
changeCurrentPassword_FindById(r, oldPassword, newPassword) ==
  /\ req[r].pc = "pwd_findById"
  /\ LET id == req[r].user
         rec == [req[r] EXCEPT !.badPwd = (db[id].password # oldPassword)]
     IN req' = [req EXCEPT ![r] =
          IF ~isPasswordCorrect(db[id], oldPassword)
          THEN Fail(rec, 400, "password")
          ELSE [rec EXCEPT !.pc = "pwd_save", !.doc = db[id],
                           !.newPassword = newPassword]]
  /\ UNCHANGED <<db, now, issued, nreq, omitUndefined, usedOK, loggedOut>>

\* user.save commits and the handler responds.
changeCurrentPassword_Save(r) ==
  /\ req[r].pc = "pwd_save"
  /\ db' = SavePassword(db, req[r].user, req[r].doc, req[r].newPassword)
  /\ req' = [req EXCEPT ![r] = [req[r] EXCEPT !.pc = "done", !.status = 200]]
  /\ UNCHANGED <<now, issued, nreq, omitUndefined, usedOK, loggedOut>>

\* ------------------------------------------------------------------ refresh
VerifyRefresh(token, t) == JwtVerify(token, RefreshVerifySecret, t)

\* req.cookies.refreshToken || req.body.refreshToken
IncomingRefreshToken(cookie, body) == IF cookie # NoToken THEN cookie ELSE body

\* Another refresh presenting the same token is past its verification and has
\* not responded yet.
InFlightSame(r, token) ==
  \E x \in Reqs \ {r} : /\ req[x].op = "refresh"
                        /\ req[x].pc \notin {"idle", "done"}
                        /\ req[x].token = token

\* The token is read and verified, up to the await on User.findById.
refreshAccessToken_Start(r, cookie, body) ==
  /\ Free(r)
  /\ nreq < MaxRequests
  /\ nreq' = nreq + 1
  /\ LET incoming == IncomingRefreshToken(cookie, body)
         v == VerifyRefresh(incoming, now)
         rec == [IdleReq EXCEPT !.op = "refresh", !.token = incoming,
                   !.tkey = incoming.key, !.texpired = (incoming.key = RefreshVerifySecret /\ now >= incoming.exp)]
     IN req' = [req EXCEPT ![r] =
          IF incoming = NoToken THEN Fail(rec, 401, "missing")
          ELSE IF v # "ok" THEN Fail(rec, RefreshCatch(v), v)
          ELSE [rec EXCEPT !.pc = "refresh_findById", !.sub = incoming.sub,
                  !.replay = incoming \in usedOK,
                  !.overlap = InFlightSame(r, incoming),
                  !.afterLogout = (incoming.sub \in Ids /\ loggedOut[incoming.sub])]]
  /\ UNCHANGED <<db, now, issued, omitUndefined, usedOK, loggedOut>>

\* User.findById resolves; the presented token is compared with the stored one
\* and generateAccessTokenAndRefreshToken is entered.
refreshAccessToken_FindById(r) ==
  /\ req[r].pc = "refresh_findById"
  /\ req' = [req EXCEPT ![r] =
       IF req[r].sub \notin DOMAIN db
       THEN Fail(req[r], RefreshCatch("unknown"), "unknown")
       ELSE IF req[r].token # db[req[r].sub].refreshToken
       THEN Fail(req[r], RefreshCatch("mismatch"), "mismatch")
       ELSE [req[r] EXCEPT !.pc = "gen_findById"]]
  /\ UNCHANGED <<db, now, issued, nreq, omitUndefined, usedOK, loggedOut>>

Next ==
  \/ Tick
  \/ \E r \in Reqs, cookie \in Presentable \cup {NoToken} : \E header \in Second(cookie) :
       verifyJWT_Start(r, cookie, header)
  \/ \E r \in Reqs, route \in {"me", "logout"} : verifyJWT_FindById(r, route)
  \/ \E r \in Reqs : LoggedOutUser_Update(r)
  \/ \E r \in Reqs, ident \in (-1 .. NumUsers), password \in Passwords :
       LoginUser_FindOne(r, ident, password)
  \/ \E r \in Reqs : generate_FindById(r)
  \/ \E r \in Reqs : generate_Save(r)
  \/ \E r \in Reqs : LoginUser_FindById(r)
  \/ \E r \in Reqs, cookie \in Presentable \cup {NoToken} : \E body \in Second(cookie) :
       refreshAccessToken_Start(r, cookie, body)
  \/ \E r \in Reqs : refreshAccessToken_FindById(r)

Spec == Init /\ [][Next]_vars

\* The session operations together with the password change of a logged-in
\* user; tokens travel in the cookies.
PasswordNext ==
  \/ Tick
  \/ \E r \in Reqs, cookie \in Presentable \cup {NoToken} :
       verifyJWT_Start(r, cookie, NoToken)
  \/ \E r \in Reqs : verifyJWT_FindById(r, "password")
  \/ \E r \in Reqs, oldPassword \in Passwords, newPassword \in Passwords :
       changeCurrentPassword_FindById(r, oldPassword, newPassword)
  \/ \E r \in Reqs : changeCurrentPassword_Save(r)
  \/ \E r \in Reqs, ident \in (-1 .. NumUsers), password \in Passwords :
       LoginUser_FindOne(r, ident, password)
  \/ \E r \in Reqs : generate_FindById(r)
  \/ \E r \in Reqs : generate_Save(r)
  \/ \E r \in Reqs : LoginUser_FindById(r)
  \/ \E r \in Reqs, cookie \in Presentable \cup {NoToken} :
       refreshAccessToken_Start(r, cookie, NoToken)
  \/ \E r \in Reqs : refreshAccessToken_FindById(r)

PasswordSpec == Init /\ [][PasswordNext]_vars

\* ------------------------------------------------------------ media upload
\* uploadOnCloudinary(localFilePath): null without a path and when the upload
\* throws, the upload's result otherwise.
uploadOnCloudinary(hasPath, uploaded) ==
  IF ~hasPath THEN NoUpload
  ELSE IF uploaded THEN UploadedUrl ELSE NoUpload

\* An upload that removes the temporary file only when it succeeded.
FilesAfterUploadKeptOnFailure(files, path, hasPath, uploaded) ==
  IF ~hasPath \/ ~uploaded THEN files ELSE files \ {path}

\* The temporary files of a request once uploadOnCloudinary(path) has returned:
\* without a path it returns at once; with one, fs.unlinkSync(path) runs after the
\* upload in the try and, when the upload threw, in the catch.
FilesAfterUpload(files, path, hasPath, uploaded) ==
  IF ~hasPath THEN files ELSE files \ {path}

\* What the error boundary answers for an error that carries no status (a
\* TypeError, a rejected store call).
UncaughtStatus == 500

\* ----------------------------------------------------------------- register
\* [fullname, email, username, password].some((f) => f?.trim() === ""): a field
\* that is absent from the body is undefined, and undefined is not "".
SomeFieldEmpty(fields) == fields = "blank"

\* The request arrives with the temporary files the upload middleware has written
\* (hasAvatar, hasCover); the body is read and validated, up to the await on
\* User.findOne.  `fields` says whether the four fields are all filled, one of
\* them is an empty or blank string, or the username is absent from the body.
registerUser_Start(r, username, email, fields, hasAvatar, hasCover) ==
  /\ Free(r)
  /\ nreq < MaxRequests
  /\ nreq' = nreq + 1
  /\ LET rec == [IdleReq EXCEPT !.op = "register",
                   !.username = IF fields = "missing" THEN NoName ELSE username,
                   !.email = email,
                   !.invalid = (fields # "filled"),
                   !.files = (IF hasAvatar THEN {"avatar"} ELSE {}) \cup
                             (IF hasCover THEN {"cover"} ELSE {})]
     IN req' = [req EXCEPT ![r] =
          IF SomeFieldEmpty(fields) THEN Fail(rec, 400, "validation")
          ELSE [rec EXCEPT !.pc = "reg_findOne"]]
  /\ UNCHANGED <<db, now, issued, omitUndefined, usedOK, loggedOut>>

\* User.findOne({$or: [{username}, {email}]}): the username as submitted.
ExistedUser(store, username, email) ==
  \E i \in DOMAIN store : store[i].username = username \/ store[i].email = email

\* findOne resolves; without a duplicate the avatar's path is looked for, up to
\* the await on the avatar's upload.
registerUser_FindOne(r) ==
  /\ req[r].pc = "reg_findOne"
  /\ LET rec == [req[r] EXCEPT
                   !.taken = ExistedUser(db, req[r].username, req[r].email)]
     IN req' = [req EXCEPT ![r] =
          IF ExistedUser(db, req[r].username, req[r].email)
          THEN Fail(rec, 409, "conflict")
          ELSE IF "avatar" \notin req[r].files THEN Fail(rec, 400, "avatar")
          ELSE [rec EXCEPT !.pc = "reg_avatar"]]
  /\ UNCHANGED <<db, now, issued, nreq, omitUndefined, usedOK, loggedOut>>

\* The avatar's upload resolves; the cover image's upload is awaited next, before
\* the avatar's result is looked at.
registerUser_UploadAvatar(r, uploaded) ==
  /\ req[r].pc = "reg_avatar"
  /\ LET avatar == uploadOnCloudinary(TRUE, uploaded)
     IN req' = [req EXCEPT ![r] =
          [req[r] EXCEPT !.pc = "reg_cover", !.avatar = avatar,
                         !.uploadFailed = (avatar = NoUpload),
                         !.files = FilesAfterUpload(req[r].files, "avatar", TRUE, uploaded)]]
  /\ UNCHANGED <<db, now, issued, nreq, omitUndefined, usedOK, loggedOut>>

\* The cover image's upload resolves; a null avatar ends the registration,
\* otherwise the document is put together (username.toLowerCase() throws a
\* TypeError on an absent username) and User.create is awaited.
registerUser_UploadCover(r, uploaded) ==
  /\ req[r].pc = "reg_cover"
  /\ LET hasPath == "cover" \in req[r].files
         coverImage == uploadOnCloudinary(hasPath, uploaded)
         rec == [req[r] EXCEPT
                   !.files = FilesAfterUpload(req[r].files, "cover", hasPath, uploaded)]
     IN req' = [req EXCEPT ![r] =
          IF req[r].avatar = NoUpload THEN Fail(rec, 400, "upload")
          ELSE IF req[r].username = NoName THEN Fail(rec, UncaughtStatus, "TypeError")
          ELSE [rec EXCEPT !.pc = "reg_create", !.coverImage = coverImage]]
  /\ UNCHANGED <<db, now, issued, nreq, omitUndefined, usedOK, loggedOut>>

\* The document User.create inserts.
NewUser(rec) ==
  [username |-> toLowerCase(rec.username), email |-> rec.email,
   avatar |-> rec.avatar, coverImage |-> rec.coverImage,
   password |-> "secret", refreshToken |-> NoToken]

\* The collection holds a document with the stored username or the email of doc.
DuplicateKey(store, doc) ==
  \E i \in DOMAIN store :
    store[i].username = doc.username \/ store[i].email = doc.email

\* User.create resolves.  Where the collection has unique indexes on username
\* and email (`indexed`), a duplicate key is an error of the store, which nothing
\* catches; where it has none the document is inserted.
registerUser_Create(r, indexed) ==
  /\ req[r].pc = "reg_create"
  /\ LET doc == NewUser(req[r])
         id == Cardinality(DOMAIN db) + 1
     IN IF indexed /\ DuplicateKey(db, doc)
        THEN /\ req' = [req EXCEPT ![r] = Fail(req[r], UncaughtStatus, "duplicate key")]
             /\ db' = db
        ELSE /\ req' = [req EXCEPT ![r] =
                  [req[r] EXCEPT !.pc = "reg_findById", !.user = id]]
             /\ db' = [i \in DOMAIN db \cup {id} |-> IF i = id THEN doc ELSE db[i]]
  /\ UNCHANGED <<now, issued, nreq, omitUndefined, usedOK, loggedOut>>

\* User.findById(user._id).select("-password -refreshToken") resolves: 201.
registerUser_FindById(r) ==
  /\ req[r].pc = "reg_findById"
  /\ req' = [req EXCEPT ![r] =
       IF req[r].user \notin DOMAIN db
       THEN Fail(req[r], 500, "registration")
       ELSE [req[r] EXCEPT !.pc = "done", !.status = 201,
              !.exposed = Select(db[req[r].user], {"password", "refreshToken"})]]
  /\ UNCHANGED <<db, now, issued, nreq, omitUndefined, usedOK, loggedOut>>

\* ------------------------------------------------- avatar and cover image
\* What `avatar.url` and `coverImage.url` give once the upload has resolved: a
\* TypeError on null, which no code catches, and the url otherwise.
UrlOf(upload) == IF upload = NoUpload THEN "TypeError" ELSE upload

\* updateUserAvatar and updateUserCoverImage (`field` says which) for a request
\* on which verifyJWT has set req.user to `id`: the file's path is looked for, up
\* to the await on its upload.
updateUserImage_Start(r, field, id, hasFile) ==
  /\ Free(r)
  /\ nreq < MaxRequests
  /\ nreq' = nreq + 1
  /\ LET rec == [IdleReq EXCEPT !.op = field, !.user = id, !.next = TRUE,
                   !.files = IF hasFile THEN {field} ELSE {}]
     IN req' = [req EXCEPT ![r] =
          IF ~hasFile THEN Fail(rec, 400, "file")
          ELSE [rec EXCEPT !.pc = "image_upload"]]
  /\ UNCHANGED <<db, now, issued, omitUndefined, usedOK, loggedOut>>

\* The upload resolves and its url is read, up to the await on
\* User.findByIdAndUpdate.
updateUserImage_Upload(r, uploaded) ==
  /\ req[r].pc = "image_upload"
  /\ LET upload == uploadOnCloudinary(TRUE, uploaded)
         rec == [req[r] EXCEPT !.uploadFailed = (upload = NoUpload),
                   !.files = FilesAfterUpload(req[r].files, req[r].op, TRUE, uploaded)]
     IN req' = [req EXCEPT ![r] =
          IF UrlOf(upload) = "TypeError" THEN Fail(rec, UncaughtStatus, "TypeError")
          ELSE IF UrlOf(upload) = "" THEN Fail(rec, 400, "upload")
          ELSE [rec EXCEPT !.pc = "image_update", !.avatar = upload]]
  /\ UNCHANGED <<db, now, issued, nreq, omitUndefined, usedOK, loggedOut>>

\* User.findByIdAndUpdate(req.user._id, {$set: {avatar | coverImage: url}},
\* {new: true}).select("-password"): the updated document is the response.
updateUserImage_Update(r) ==
  /\ req[r].pc = "image_update"
  /\ db' = IF req[r].op = "avatar"
           THEN [db EXCEPT ![req[r].user].avatar = req[r].avatar]
           ELSE [db EXCEPT ![req[r].user].coverImage = req[r].avatar]
  /\ req' = [req EXCEPT ![r] =
       [req[r] EXCEPT !.pc = "done", !.status = 200,
                      !.exposed = Select(db[req[r].user], {"password"})]]
  /\ UNCHANGED <<now, issued, nreq, omitUndefined, usedOK, loggedOut>>

\* ---------------------------------------------------------- account details
\* updateAccountDetails for a request on which verifyJWT has set req.user to
\* `id`: fullname and email are looked for (`blank` says that one of them is
\* missing or empty), up to the await on User.findByIdAndUpdate.
updateAccountDetails_Start(r, id, email, blank) ==
  /\ Free(r)
  /\ nreq < MaxRequests
  /\ nreq' = nreq + 1
  /\ LET rec == [IdleReq EXCEPT !.op = "details", !.user = id, !.next = TRUE]
     IN req' = [req EXCEPT ![r] =
          IF blank THEN Fail(rec, 400, "validation")
          ELSE [rec EXCEPT !.pc = "details_update", !.email = email]]
  /\ UNCHANGED <<db, now, issued, omitUndefined, usedOK, loggedOut>>

\* User.findByIdAndUpdate(req.user._id, {$set: {fullname, email}},
\* {new: true}).select("-password"): the updated document is the response.
updateAccountDetails_Update(r) ==
  /\ req[r].pc = "details_update"
  /\ db' = [db EXCEPT ![req[r].user].email = req[r].email]
  /\ req' = [req EXCEPT ![r] =
       [req[r] EXCEPT !.pc = "done", !.status = 200,
                      !.exposed = Select(db[req[r].user], {"password"})]]
  /\ UNCHANGED <<now, issued, nreq, omitUndefined, usedOK, loggedOut>>

\* Registration and the updates of a logged-in user's images and details.
AccountNext ==
  \/ \E r \in Reqs, word \in Names, caps \in BOOLEAN, email \in Names,
        fields \in {"filled", "blank", "missing"},
        hasAvatar \in BOOLEAN, hasCover \in BOOLEAN :
       registerUser_Start(r, [word |-> word, caps |-> caps], email, fields,
                          hasAvatar, hasCover)
  \/ \E r \in Reqs : registerUser_FindOne(r)
  \/ \E r \in Reqs, uploaded \in BOOLEAN : registerUser_UploadAvatar(r, uploaded)
  \/ \E r \in Reqs, uploaded \in BOOLEAN : registerUser_UploadCover(r, uploaded)
  \/ \E r \in Reqs, indexed \in BOOLEAN : registerUser_Create(r, indexed)
  \/ \E r \in Reqs : registerUser_FindById(r)
  \/ \E r \in Reqs, field \in {"avatar", "cover"}, id \in DOMAIN db, hasFile \in BOOLEAN :
       updateUserImage_Start(r, field, id, hasFile)
  \/ \E r \in Reqs, uploaded \in BOOLEAN : updateUserImage_Upload(r, uploaded)
  \/ \E r \in Reqs : updateUserImage_Update(r)
  \/ \E r \in Reqs, id \in DOMAIN db, email \in Names, blank \in BOOLEAN :
       updateAccountDetails_Start(r, id, email, blank)
  \/ \E r \in Reqs : updateAccountDetails_Update(r)

AccountSpec == Init /\ [][AccountNext]_vars

\* The handlers that upload: registrations of one new name, with all fields
\* filled, and the two image updates.
UploadNext ==
  \/ \E r \in Reqs, hasAvatar \in BOOLEAN, hasCover \in BOOLEAN :
       registerUser_Start(r, [word |-> NumUsers + 1, caps |-> FALSE], NumUsers + 1,
                          "filled", hasAvatar, hasCover)
  \/ \E r \in Reqs : registerUser_FindOne(r)
  \/ \E r \in Reqs, uploaded \in BOOLEAN : registerUser_UploadAvatar(r, uploaded)
  \/ \E r \in Reqs, uploaded \in BOOLEAN : registerUser_UploadCover(r, uploaded)
  \/ \E r \in Reqs, indexed \in BOOLEAN : registerUser_Create(r, indexed)
  \/ \E r \in Reqs : registerUser_FindById(r)
  \/ \E r \in Reqs, field \in {"avatar", "cover"}, id \in DOMAIN db, hasFile \in BOOLEAN :
       updateUserImage_Start(r, field, id, hasFile)
  \/ \E r \in Reqs, uploaded \in BOOLEAN : updateUserImage_Upload(r, uploaded)
  \/ \E r \in Reqs : updateUserImage_Update(r)

UploadSpec == Init /\ [][UploadNext]_vars

\* --------------------------------------------------------- a failing store
\* User.findById(userId) rejects inside generateAccessTokenAndRefreshToken: its
\* catch throws; LoginUser lets that through to the error boundary, while
\* refreshAccessToken called it inside its own try.
generate_FindByIdFails(r) ==
  /\ req[r].pc = "gen_findById"
  /\ req' = [req EXCEPT ![r] =
       Fail(req[r],
            IF req[r].op = "refresh" THEN RefreshCatch("generate")
            ELSE GenerateCatchStatus, "generate")]
  /\ UNCHANGED <<db, now, issued, nreq, omitUndefined, usedOK, loggedOut>>

\* user.save rejects: nothing is written, and the error takes the same way.
generate_SaveFails(r) ==
  /\ req[r].pc = "gen_save"
  /\ req' = [req EXCEPT ![r] =
       Fail(req[r],
            IF req[r].op = "refresh" THEN RefreshCatch("generate")
            ELSE GenerateCatchStatus, "generate")]
  /\ UNCHANGED <<db, now, issued, nreq, omitUndefined, usedOK, loggedOut>>

\* The session operations over a store whose calls, while tokens are issued,
\* may fail.
FaultNext ==
  \/ Next
  \/ \E r \in Reqs : generate_FindByIdFails(r)
  \/ \E r \in Reqs : generate_SaveFails(r)

FaultSpec == Init /\ [][FaultNext]_vars

\* ================================================================== claims

Refreshed(r) == req[r].op = "refresh" /\ req[r].pc = "done"

\* C1: a refresh that presents a token t which an earlier refresh has already
\* redeemed successfully (no login of the identity in between) fails with 401
\* and issues no tokens.
C1_ReplayedRefreshFails ==
  \A r \in Reqs :
    (Refreshed(r) /\ req[r].replay) =>
      (req[r].status = 401 /\ req[r].outAccess = NoToken)

\* C2: of two refresh requests that are in flight together and present the same
\* refresh token, at most one succeeds.
C2_ConcurrentRefreshOnce ==
  ~ \E r1, r2 \in Reqs :
      /\ r1 # r2
      /\ Refreshed(r1) /\ Refreshed(r2)
      /\ req[r1].token = req[r2].token
      /\ req[r1].overlap \/ req[r2].overlap
      /\ req[r1].status = 200 /\ req[r2].status = 200

\* C3: once a logout of an identity has completed, and until a login stores a
\* new token for it, every refresh that names the identity fails with 401.
C3_RefreshAfterLogoutFails ==
  \A r \in Reqs :
    (Refreshed(r) /\ req[r].afterLogout) => req[r].status = 401

\* C4: a successful refresh hands the caller, in the body and in the cookie, a new
\* access token and the refresh token it has just persisted on the identity.
C4_RefreshReturnsStoredToken ==
  \A r \in Reqs :
    (Refreshed(r) /\ req[r].status = 200) =>
      /\ req[r].outAccess = req[r].access
      /\ req[r].outAccess # NoToken
      /\ req[r].outRefresh = req[r].refresh
      /\ req[r].outCookie = req[r].refresh

\* jwt.verify succeeds on `token` with `secret` while the token is fresh and
\* yields the subject `id`.
VerifiesFor(token, secret, id) ==
  JwtVerify(token, secret, token.iat) = "ok" /\ token.sub = id

LoginWithValidCredentials(r) == req[r].op = "login" /\ req[r].credsOK

\* C5 as stated: a login with an existing identity's correct password ends with
\* 200 and two tokens that verify for the identity, and in the state in which it
\* responds the identity's stored refresh token is the returned one.
C5_StoredEqualsReturnedAtReturn ==
  [][\A r \in Reqs :
       (LoginWithValidCredentials(r) /\ req[r].pc # "done" /\ req'[r].pc = "done") =>
         /\ req'[r].status = 200
         /\ VerifiesFor(req'[r].outAccess, AccessSecret, req[r].sub)
         /\ VerifiesFor(req'[r].outRefresh, RefreshSecret, req[r].sub)
         /\ db'[req[r].sub].refreshToken = req'[r].outRefresh]_vars

\* C5 amended: such a login ends with 200 and two tokens that verify for the
\* identity; the returned refresh token is the one its save stored, and it is the
\* stored one from that save on, also when login returns, for as long as no other
\* request has written the identity's refresh token.
C5_LoginReturnsTokenItStored ==
  \A r \in Reqs :
    LoginWithValidCredentials(r) =>
      /\ req[r].pc = "done" =>
           /\ req[r].status = 200
           /\ VerifiesFor(req[r].outAccess, AccessSecret, req[r].sub)
           /\ VerifiesFor(req[r].outRefresh, RefreshSecret, req[r].sub)
           /\ req[r].outRefresh = req[r].refresh
           /\ req[r].outCookie = req[r].refresh
      /\ (req[r].pc \in {"login_findById", "done"} /\ ~req[r].overwritten) =>
           db[req[r].sub].refreshToken = req[r].refresh

\* A login has returned while its token is the stored one.
C5_Witness ==
  \E r \in Reqs :
    /\ LoginWithValidCredentials(r) /\ req[r].pc = "done" /\ req[r].status = 200
    /\ ~req[r].overwritten
    /\ db[req[r].sub].refreshToken = req[r].outRefresh

\* refreshAccessToken accepts token t for identity i at time at, `stored` being
\* the identity's stored refresh token.
AcceptedIn(t, i, stored, at) ==
  /\ t # NoToken
  /\ VerifyRefresh(t, at) = "ok"
  /\ t.sub = i
  /\ t = stored

Accepted(t, i) == AcceptedIn(t, i, db[i].refreshToken, now)

\* C6: at any time at most one refresh-token value is accepted for an identity,
\* and the save of a login or refresh leaves the token stored before it no
\* longer accepted.
C6_OverwriteInvalidatesPrevious ==
  /\ [](\A i \in Ids : \A t1, t2 \in issued \cup {db[i].refreshToken} :
          (Accepted(t1, i) /\ Accepted(t2, i)) => t1 = t2)
  /\ [][\A r \in Reqs :
          (req[r].pc = "gen_save" /\ req'[r].pc # "gen_save") =>
            ~AcceptedIn(db[req[r].sub].refreshToken, req[r].sub,
                        db'[req[r].sub].refreshToken, now')]_vars

Protected(r) == req[r].op \in {"protected", "me", "logout"} /\ req[r].pc # "idle"

\* The presented token is no JWT, is signed with another key than the access
\* secret, or is past its expiry.
BadAccessToken(r) ==
  \/ req[r].tkey = "garbage"
  \/ req[r].tkey \in {"attacker", RefreshSecret}
  \/ req[r].tkey = AccessSecret /\ req[r].texpired

\* C7: a protected request whose access token is malformed, wrongly signed or
\* expired ends with 401, with req.user unset and the handler not called.
C7_BadAccessTokenRejected ==
  \A r \in Reqs :
    (Protected(r) /\ BadAccessToken(r)) =>
      /\ req[r].pc = "done"
      /\ req[r].status = 401
      /\ req[r].user = 0
      /\ ~req[r].next

\* A request with an access token of an existing identity that has expired has
\* been rejected.
C7_Witness ==
  \E r \in Reqs :
    /\ Protected(r) /\ req[r].pc = "done" /\ req[r].status = 401
    /\ req[r].tkey = AccessSecret /\ req[r].texpired /\ req[r].cause = "expired"

\* C8: the middleware authenticates an access token as the identity it names and
\* login's access token names the identity that logged in; an access token
\* presented to refresh and a refresh token presented to the middleware are
\* rejected with 401.
C8_SecretScoped ==
  \A r \in Reqs :
    /\ (Protected(r) /\ req[r].user # 0) =>
         (req[r].tkey = AccessSecret /\ req[r].user = req[r].token.sub)
    /\ (req[r].op = "login" /\ req[r].pc = "done" /\ req[r].status = 200) =>
         (VerifyAccess(req[r].outAccess, req[r].outAccess.iat) = "ok"
          /\ req[r].outAccess.sub = req[r].sub)
    /\ (req[r].op = "refresh" /\ req[r].pc # "idle" /\ req[r].tkey = AccessSecret) =>
         (req[r].pc = "done" /\ req[r].status = 401)
    /\ (Protected(r) /\ req[r].tkey = RefreshSecret) =>
         (req[r].pc = "done" /\ req[r].status = 401 /\ req[r].user = 0)

\* A login has issued an access token and that token, unexpired, has been
\* presented to refresh and rejected.
C8_Witness ==
  \E r \in Reqs :
    /\ req[r].op = "refresh" /\ req[r].pc = "done" /\ req[r].status = 401
    /\ req[r].tkey = AccessSecret /\ ~req[r].texpired
    /\ req[r].cause = "signature"
    /\ \E i \in Ids : generateAccessToken(i, now) \in issued

\* C9: the middleware lets a request through exactly when its token is signed
\* with the access secret, unexpired, and names an existing identity, whatever
\* refresh token that identity has stored; and no stored refresh token is ever
\* an access token.
C9_MiddlewareIgnoresStoredToken ==
  /\ \A r \in Reqs :
       (Protected(r) /\ req[r].pc \in {"done", "logout_update"}) =>
         ((req[r].user # 0 /\ req[r].next) <=>
            (req[r].tkey = AccessSecret /\ ~req[r].texpired /\ req[r].sub \in Ids))
  /\ \A i \in Ids : db[i].refreshToken.key \in {"none", RefreshSecret}

\* The middleware passed a request of an identity that holds no stored refresh
\* token after its logout.
C9_Witness ==
  \E r \in Reqs :
    /\ Protected(r) /\ req[r].pc = "done" /\ req[r].status = 200 /\ req[r].op = "me"
    /\ loggedOut[req[r].user]
    /\ db[req[r].user].refreshToken = NoToken

VerificationFailures ==
  {"missing", "malformed", "signature", "expired", "unknown", "mismatch"}

\* Request r has received its failure response in this step.
FailsNow(r) ==
  /\ req'[r] # req[r]
  /\ req'[r].pc = "done"
  /\ req'[r].cause \in VerificationFailures

\* C10: in the middleware and in refresh, a missing, malformed, wrongly signed or
\* expired token, an unknown identity and a token that is not the stored one all
\* end with status 401, and the step that fails writes nothing to the store.
C10_VerificationFailuresAre401 ==
  /\ [](\A r \in Reqs :
          (req[r].op \in {"protected", "me", "logout", "refresh"} /\ req[r].pc # "idle") =>
            /\ (req[r].pc = "done" /\ req[r].status # 200) => req[r].status = 401
            /\ (req[r].tkey \in {"none", "garbage", "attacker"} \/ req[r].texpired
                \/ req[r].cause \in VerificationFailures) =>
                 (req[r].pc = "done" /\ req[r].status = 401))
  /\ [][\A r \in Reqs : FailsNow(r) => db' = db]_vars

\* Refresh has failed with 401 on a well-signed, unexpired token that is not the
\* one the identity has stored now.
C10_Witness ==
  \E r \in Reqs :
    /\ req[r].op = "refresh" /\ req[r].pc = "done" /\ req[r].status = 401
    /\ req[r].cause = "mismatch"
    /\ db[req[r].sub].refreshToken # NoToken

\* Login request r has received a failure response in this step.
LoginFailsNow(r) ==
  /\ req'[r] # req[r]
  /\ req'[r].op = "login" /\ req'[r].pc = "done" /\ req'[r].status # 200

\* C11: a login whose identifier names no identity ends with 404 and a login
\* that names an identity with a password that is not its password ends with 401;
\* neither response carries a token, and the failing step leaves the stored
\* refresh tokens and the set of issued tokens as they were.
C11_FailedLoginIssuesNothing ==
  /\ [](\A r \in Reqs :
          (req[r].op = "login" /\ req[r].pc # "idle") =>
            /\ req[r].sub = 0 => (req[r].pc = "done" /\ req[r].status = 404)
            /\ req[r].badPwd => (req[r].pc = "done" /\ req[r].status = 401)
            /\ (req[r].sub = 0 \/ req[r].badPwd) =>
                 /\ req[r].outAccess = NoToken
                 /\ req[r].outRefresh = NoToken
                 /\ req[r].outCookie = NoToken)
  /\ [][\A r \in Reqs : LoginFailsNow(r) => (db' = db /\ issued' = issued)]_vars

\* A login with a wrong password has been turned away while the identity holds
\* a stored refresh token.
C11_Witness ==
  \E r \in Reqs :
    /\ req[r].op = "login" /\ req[r].pc = "done" /\ req[r].status = 401
    /\ req[r].badPwd /\ req[r].sub \in Ids
    /\ db[req[r].sub].refreshToken # NoToken

\* Request r is a password change that has responded in this step.
PasswordChangeEndsNow(r) ==
  /\ req'[r] # req[r]
  /\ req'[r].op = "password" /\ req'[r].pc = "done"

\* C12: a password change whose old password is not the stored one ends with 401
\* and leaves the stored password as it was; one whose old password matches
\* stores the new password, so that the new password is then the correct one and
\* the old one, when different, is not.
C12_ChangePassword ==
  /\ [](\A r \in Reqs :
          (req[r].op = "password" /\ req[r].pc = "done" /\ req[r].badPwd) =>
            req[r].status = 401)
  /\ [][\A r \in Reqs :
          PasswordChangeEndsNow(r) =>
            IF req'[r].badPwd
            THEN db' = db
            ELSE /\ req'[r].status = 200
                 /\ isPasswordCorrect(db'[req[r].user], req[r].newPassword)
                 /\ \A p \in Passwords \ {req[r].newPassword} :
                      ~isPasswordCorrect(db'[req[r].user], p)]_vars

\* C13: the save of a password change leaves the identity's stored refresh token
\* as it was immediately before the save, also when a login or refresh has
\* written it since the password change loaded the document, and the token that
\* refresh accepted before the save is accepted after it.
C13_PasswordChangeKeepsRefreshToken ==
  [][\A r \in Reqs :
       (req[r].pc \in {"pwd_findById", "pwd_save"} /\ req'[r].pc # req[r].pc) =>
         /\ \A i \in Ids : db'[i].refreshToken = db[i].refreshToken
         /\ \A i \in Ids :
              Accepted(db[i].refreshToken, i) =>
                AcceptedIn(db[i].refreshToken, i, db'[i].refreshToken, now')]_vars

\* A password change has saved after a login or refresh replaced the refresh
\* token it had loaded, and the replacing token is the stored one.
C13_Witness ==
  \E r \in Reqs :
    /\ req[r].op = "password" /\ req[r].pc = "done" /\ req[r].status = 200
    /\ req[r].overwritten
    /\ req[r].doc.refreshToken # db[req[r].user].refreshToken
    /\ Accepted(db[req[r].user].refreshToken, req[r].user)

\* C14: a logout of an identity that follows a completed logout of it, with no
\* login in between, succeeds like the first and leaves the store as the first
\* is to leave it: the stored refresh token empty and every other field as it was.
C14_LogoutIdempotent ==
  [][\A r \in Reqs :
       (req[r].pc = "logout_update" /\ req'[r].pc = "done") =>
         /\ req'[r].status = 200
         /\ db'[req[r].user].refreshToken = NoToken
         /\ db'[req[r].user].password = db[req[r].user].password
         /\ loggedOut[req[r].user] => db' = db]_vars

\* C17: once a logout of an identity has completed, and until a login stores a new
\* token for it, the identity's stored refresh token is empty, no refresh of the
\* identity succeeds, and no refresh stores a token for it, whether or not the
\* refresh had passed its comparison before the logout.
C17_LogoutBeatsInFlightRefresh ==
  /\ [](\A i \in Ids : loggedOut[i] => db[i].refreshToken = NoToken)
  /\ [][\A r \in Reqs :
          (req[r].op = "refresh" /\ req[r].pc = "gen_save" /\ req'[r].pc = "done"
           /\ loggedOut[req[r].sub]) =>
            (req'[r].status = 401 /\ db' = db)]_vars

\* The middleware is between jwt.verify and the answer of User.findById.
Verifying(r) == req[r].pc = "mw_findById"

\* The middleware has set req.user and called next().
Authenticated(r) == req[r].next /\ req[r].user # 0

\* The middleware has ended the request with 401.
Rejected(r) ==
  req[r].pc = "done" /\ req[r].status = 401 /\ req[r].cause \in VerificationFailures

\* C18: a protected request is verifying, authenticated or rejected, and never
\* two of them; the handler runs only when authenticated, with req.user the
\* existing identity the token names; and a well-signed, unexpired access token of
\* an identity that is not in the store ends rejected with 401.
C18_MiddlewareStateMachine ==
  \A r \in Reqs :
    Protected(r) =>
      /\ Verifying(r) \/ Authenticated(r) \/ Rejected(r)
      /\ ~(Verifying(r) /\ Authenticated(r))
      /\ ~(Verifying(r) /\ Rejected(r))
      /\ ~(Authenticated(r) /\ Rejected(r))
      /\ (req[r].next \/ req[r].user # 0) =>
           (Authenticated(r) /\ req[r].user = req[r].token.sub
            /\ req[r].user \in DOMAIN db)
      /\ (req[r].tkey = AccessSecret /\ ~req[r].texpired /\ ~Verifying(r)
          /\ req[r].sub \notin DOMAIN db) =>
           (Rejected(r) /\ ~req[r].next /\ req[r].user = 0)

\* An unexpired access token of the removed account has been rejected after the
\* lookup of its identity.
C18_Witness ==
  \E r \in Reqs :
    /\ Protected(r) /\ Rejected(r) /\ req[r].cause = "unknown"
    /\ req[r].tkey = AccessSecret /\ ~req[r].texpired /\ req[r].sub = Ghost

\* C20: the middleware verifies the accessToken cookie when the request has one,
\* whatever the Authorization header holds, and the header's token only when it
\* has none; a request with neither is answered 401 before any verification or
\* lookup.
C20_CookieThenHeader ==
  \A r \in Reqs :
    Protected(r) =>
      /\ req[r].extractOK
      /\ req[r].headerToo => req[r].tkey # "attacker"
      /\ req[r].tkey = "none" =>
           /\ req[r].pc = "done" /\ req[r].status = 401
           /\ req[r].cause = "missing" /\ req[r].sub = -1 /\ req[r].user = 0

\* A request with a good cookie and another token in the header has been let
\* through.
C20_Witness ==
  \E r \in Reqs :
    /\ Protected(r) /\ Authenticated(r)
    /\ req[r].headerToo

\* C19: a login or a refresh during which the store failed while the new refresh
\* token was being loaded for or saved on the identity ends with status 500 and
\* hands out no token.
C19_StoreFailureIs500 ==
  \A r \in Reqs :
    (req[r].op \in {"login", "refresh"} /\ req[r].pc = "done"
     /\ req[r].cause = "generate") =>
      /\ req[r].status = 500
      /\ req[r].outAccess = NoToken
      /\ req[r].outRefresh = NoToken
      /\ req[r].outCookie = NoToken

\* A request whose mandatory upload has come back null takes a step.
StepAfterFailedUpload(r) ==
  /\ req'[r] # req[r]
  /\ req[r].op \in {"register", "avatar", "cover"}
  /\ req'[r].op = req[r].op
  /\ req'[r].uploadFailed

\* C15: a registration whose avatar upload returned null, and an avatar or cover
\* image update whose upload returned null, ends with status 400, and no step
\* of such a request creates or modifies a document.
C15_FailedUploadIs400 ==
  /\ [](\A r \in Reqs :
          (req[r].op \in {"register", "avatar", "cover"} /\ req[r].uploadFailed
           /\ req[r].pc = "done") => req[r].status = 400)
  /\ [][\A r \in Reqs : StepAfterFailedUpload(r) => db' = db]_vars

\* C16: a registration whose username or email is found on a stored identity,
\* by the lookup or by the store when the document is inserted, ends with 409 and
\* creates nothing, and no two stored identities ever have the same stored
\* username or the same email.
C16_NoDuplicateIdentities ==
  /\ [](\A r \in Reqs :
          (req[r].op = "register"
           /\ (req[r].taken \/ req[r].cause = "duplicate key")) =>
            (req[r].pc = "done" /\ req[r].status = 409 /\ req[r].user = 0))
  /\ [](\A i, j \in DOMAIN db :
          i # j => (db[i].username # db[j].username /\ db[i].email # db[j].email))

\* C21: no identity object that a register, login, current-user, details,
\* avatar or cover image request puts in its response or on req.user carries
\* the password or the stored refresh token.
C21_NoCredentialFieldsInResponses ==
  \A r \in Reqs :
    req[r].op \in {"register", "login", "protected", "me", "details", "avatar", "cover"} =>
      req[r].exposed \cap CredentialFields = {}

\* uploadOnCloudinary, called by request r in the position `pc`, returns in
\* this step.
UploadReturns(r, pc) == req[r].pc = pc /\ req'[r].pc # pc

\* C22: when uploadOnCloudinary returns for a path, the temporary file at that
\* path is gone, whether the upload gave a result or null; called without a path
\* (a registration without a cover image) it gives null and leaves every
\* temporary file where it is.
C22_UploadDeletesTempFile ==
  [][\A r \in Reqs :
       /\ UploadReturns(r, "reg_avatar") => "avatar" \notin req'[r].files
       /\ UploadReturns(r, "image_upload") => req[r].op \notin req'[r].files
       /\ UploadReturns(r, "reg_cover") =>
            IF "cover" \in req[r].files
            THEN "cover" \notin req'[r].files
            ELSE /\ \A x \in Reqs : req'[x].files = req[x].files
                 /\ req'[r].coverImage = NoUpload]_vars

\* A registration whose avatar upload failed has ended, and the avatar's
\* temporary file is gone.
C22_Witness ==
  \E r \in Reqs :
    /\ req[r].op = "register" /\ req[r].pc = "done" /\ req[r].cause = "upload"
    /\ req[r].uploadFailed
    /\ "avatar" \notin req[r].files

\* C23: a registration that has ended, with 201 or with any failure, has left
\* none of the temporary files that arrived with it.
C23_RegistrationLeavesNoTempFile ==
  \A r \in Reqs :
    (req[r].op = "register" /\ req[r].pc = "done") => req[r].files = {}

\* C24: a registration in which one of fullname, email, username and password
\* is absent, empty or blank ends with 400 at once: it never waits for the
\* duplicate lookup, an upload or the insert.
C24_MissingOrBlankFieldIs400 ==
  \A r \in Reqs :
    (req[r].op = "register" /\ req[r].invalid) =>
      (req[r].pc = "done" /\ req[r].status = 400 /\ req[r].cause = "validation")

====
